---- MODULE Spec2Model ----
(***************************************************************************)
(* A model of the jq-like query tool of src/main.rs: the query compiler    *)
(* (evaluate_command), the stream evaluator (apply_stream), the renderer   *)
(* (apply_print) and the document loop of main.                            *)
(*                                                                         *)
(* Text is modelled as a sequence of one-character strings, so that the    *)
(* compiler's slicing, splitting and number parsing are computed as the    *)
(* code computes them.  All text is ASCII, so byte offsets are char        *)
(* offsets.                                                                *)
(***************************************************************************)
EXTENDS Integers, Sequences, FiniteSets, TLC

VARIABLES
    cli,        \* the parsed command line: [command, json_output, yaml_output, raw]
    docs,       \* the decoded input documents, in input order
    build,      \* "debug" (overflow checks on) or "release" (wrapping arithmetic)
    pc,         \* position of the run
    s,          \* evaluate_command: the text not yet consumed
    commands,   \* evaluate_command: the operations accumulated so far / main: stream
    print,      \* the print command
    di,         \* main: number of documents taken from the deserializer
    it,         \* main: the rest of the current document's lazy result sequence
    out,        \* everything written to the output so far
    obj,        \* apply_stream taken alone: the document
    res         \* apply_stream taken alone: its result sequence

vars == <<cli, docs, build, pc, s, commands, print, di, it, out, obj, res>>

(***************************************************************************)
(* Bounds of the model.                                                    *)
(***************************************************************************)
MaxInt == 11        \* range bounds and indexes are drawn from -MaxInt..MaxInt
MaxDocs == 2        \* input streams hold at most MaxDocs documents
MaxFrags == 3       \* compiler queries are made of at most MaxFrags fragments
MaxLen == 5         \* sequences of numbers hold at most MaxLen elements
MaxElems == 2       \* filtered sequences hold at most MaxElems elements
MaxOps == 2         \* operation lists without fan-out hold at most MaxOps operations

(***************************************************************************)
(* Text.                                                                   *)
(***************************************************************************)
DigitSeq == <<"0", "1", "2", "3", "4", "5", "6", "7", "8", "9">>

Digit == {DigitSeq[i] : i \in 1..10}

DigitVal(c) == (CHOOSE i \in 1..10 : DigitSeq[i] = c) - 1

\* s.starts_with(p) for a text pattern p
StartsWith(t, p) == Len(t) >= Len(p) /\ SubSeq(t, 1, Len(p)) = p

\* s.starts_with(chars) for a set of characters
StartsWithAny(t, cs) == t # <<>> /\ t[1] \in cs

\* &s[n..], defined when n <= s.len() (the code panics otherwise)
From(t, n) == SubSeq(t, n + 1, Len(t))

\* the length of the longest prefix of t holding no character of cs
RECURSIVE PieceLen(_, _)
PieceLen(t, cs) ==
    IF t = <<>> \/ t[1] \in cs THEN 0 ELSE 1 + PieceLen(Tail(t), cs)

\* s.split(cs).next().unwrap_or(s): the text before the first delimiter
FirstPiece(t, cs) == SubSeq(t, 1, PieceLen(t, cs))

\* s.split(cs): every piece between delimiters (always at least one piece)
RECURSIVE Split(_, _)
Split(t, cs) ==
    LET n == PieceLen(t, cs)
    IN  IF n = Len(t) THEN <<t>>
        ELSE <<SubSeq(t, 1, n)>> \o Split(From(t, n + 1), cs)

\* the offset of the first occurrence of pattern p in t, or -1
RECURSIVE Find(_, _)
Find(t, p) ==
    IF Len(t) < Len(p) THEN -1
    ELSE IF StartsWith(t, p) THEN 0
    ELSE LET r == Find(Tail(t), p) IN IF r < 0 THEN -1 ELSE r + 1

\* s.split_once(p): [some, a, b]
SplitOnce(t, p) ==
    LET i == Find(t, p)
    IN  IF i < 0 THEN [some |-> FALSE, a |-> <<>>, b |-> <<>>]
        ELSE [some |-> TRUE, a |-> SubSeq(t, 1, i), b |-> From(t, i + Len(p))]

\* the position (1-based) of the last character of t that is in cs, or 0
RECURSIVE LastOf(_, _)
LastOf(t, cs) ==
    IF t = <<>> THEN 0
    ELSE IF t[Len(t)] \in cs THEN Len(t)
    ELSE LastOf(SubSeq(t, 1, Len(t) - 1), cs)

\* s.trim() (of spaces, the only whitespace of the model's text)
RECURSIVE TrimStart(_)
TrimStart(t) == IF t # <<>> /\ t[1] = " " THEN TrimStart(Tail(t)) ELSE t

RECURSIVE TrimEnd(_)
TrimEnd(t) ==
    IF t # <<>> /\ t[Len(t)] = " " THEN TrimEnd(SubSeq(t, 1, Len(t) - 1)) ELSE t

Trim(t) == TrimEnd(TrimStart(t))

\* the value of a non-empty text of digits
RECURSIVE DigitsVal(_)
DigitsVal(t) ==
    IF t = <<>> THEN 0
    ELSE 10 * DigitsVal(SubSeq(t, 1, Len(t) - 1)) + DigitVal(t[Len(t)])

AllDigits(t) == t # <<>> /\ \A i \in 1..Len(t) : t[i] \in Digit

\* str::parse::<i64>(): an optional sign, then one or more digits
ParseI64(t) ==
    IF StartsWithAny(t, {"-"}) /\ AllDigits(Tail(t))
        THEN [ok |-> TRUE, v |-> 0 - DigitsVal(Tail(t))]
    ELSE IF StartsWithAny(t, {"+"}) /\ AllDigits(Tail(t))
        THEN [ok |-> TRUE, v |-> DigitsVal(Tail(t))]
    ELSE IF AllDigits(t) THEN [ok |-> TRUE, v |-> DigitsVal(t)]
    ELSE [ok |-> FALSE, v |-> 0]

\* str::parse::<usize>(): an optional plus sign, then one or more digits
ParseUsize(t) ==
    IF StartsWithAny(t, {"+"}) /\ AllDigits(Tail(t))
        THEN [ok |-> TRUE, v |-> DigitsVal(Tail(t))]
    ELSE IF AllDigits(t) THEN [ok |-> TRUE, v |-> DigitsVal(t)]
    ELSE [ok |-> FALSE, v |-> 0]

\* i64::to_string(): the canonical decimal text
RECURSIVE NatToString(_)
NatToString(n) ==
    IF n < 10 THEN <<DigitSeq[n + 1]>>
    ELSE NatToString(n \div 10) \o <<DigitSeq[(n % 10) + 1]>>

to_string(n) == IF n < 0 THEN <<"-">> \o NatToString(0 - n) ELSE NatToString(n)

(***************************************************************************)
(* The compiled query: StreamCommand and PrintCommand.                     *)
(***************************************************************************)
None == [some |-> FALSE, v |-> 0]

Some(n) == [some |-> TRUE, v |-> n]

Key(k) == [op |-> "Key", s |-> k]

Index(i) == [op |-> "Index", i |-> i]

Range(start, end) == [op |-> "Range", start |-> start, end |-> end]

Filter(f) == [op |-> "Filter", f |-> f]

Put(k, v) == [op |-> "Put", k |-> k, v |-> v]

Delete(k) == [op |-> "Delete", k |-> k]

Mode(m) == [mode |-> m, pairs |-> <<>>, print_headers |-> FALSE]

Pretty == Mode("Pretty")

Json == Mode("Json")

Yaml == Mode("Yaml")

Keys == Mode("Keys")

Len_ == Mode("Len")

Csv(pairs, print_headers) ==
    [mode |-> "Csv", pairs |-> pairs, print_headers |-> print_headers]

TOKENS == {",", ".", "[", "]", ")"}

DIGITS == Digit \cup {"-"}

SEPARATORS == {",", ")"}

\* one header clause of split_headers: (selector, header), both trimmed
HeaderPair(t) ==
    LET eq == SplitOnce(t, <<"=">>)
        as == SplitOnce(t, <<" ", "a", "s", " ">>)
        r  == LastOf(t, {"]", "."})
        kv == IF eq.some THEN <<eq.a, eq.b>>
              ELSE IF as.some THEN <<as.a, as.b>>
              ELSE IF r > 0 THEN <<t, From(t, r)>>
              ELSE <<t, t>>
    IN  <<Trim(kv[1]), Trim(kv[2])>>

split_headers(t) ==
    LET ps == Split(t, SEPARATORS) IN [i \in 1..Len(ps) |-> HeaderPair(ps[i])]

(***************************************************************************)
(* evaluate_command.  LoopStep is one iteration of its while loop on the   *)
(* remaining text t with the operations cs accumulated so far; it either   *)
(* goes on ("next"), returns ("return") or panics ("panic").               *)
(***************************************************************************)
GoOn(t, cs) == [kind |-> "next", s |-> t, commands |-> cs, print |-> Pretty]

Return(cs, p) == [kind |-> "return", s |-> <<>>, commands |-> cs, print |-> p]

CompilePanic == [kind |-> "panic", s |-> <<>>, commands |-> <<>>, print |-> Pretty]

\* the put branch: one Put per clause; a clause without '=' panics
PutClauses(ps) == [i \in 1..Len(ps) |->
    LET kv == SplitOnce(ps[i], <<"=">>) IN Put(kv.a, kv.b)]

PutStep(t, cs) ==
    IF Len(t) < 4 THEN CompilePanic
    ELSE LET t4  == From(t, 4)
             put == FirstPiece(t4, {","})
             ps  == Split(put, {")"})
         IN  IF \E i \in 1..Len(ps) : ~SplitOnce(ps[i], <<"=">>).some
                 THEN CompilePanic
             ELSE GoOn(From(t4, Len(put)), cs \o PutClauses(ps))

DeleteStep(t, cs) ==
    IF Len(t) < 7 THEN CompilePanic
    ELSE LET t7     == From(t, 7)
             delete == FirstPiece(t7, {","})
             ks     == Split(delete, {")"})
         IN  GoOn(From(t7, Len(delete)),
                  cs \o [i \in 1..Len(ks) |-> Delete(ks[i])])

\* a ".." branch that steps over one digit, whatever the length of the number
DotDotStep_one_digit(t, cs) ==
    LET end == ParseI64(From(t, 2))
    IN  IF ~end.ok THEN CompilePanic
        ELSE GoOn(From(t, 3), Append(cs, Range(None, Some(end.v))))

\* the ".." branch: the whole rest of the text is parsed as the end
DotDotStep(t, cs) ==
    LET end == ParseI64(From(t, 2))
    IN  IF ~end.ok THEN CompilePanic
        ELSE GoOn(From(t, 2 + Len(to_string(end.v))),
                  Append(cs, Range(None, Some(end.v))))

\* the "." branch: a dotted key; an empty token is skipped
DotStep(t, cs) ==
    LET t1  == Tail(t)
        tok == FirstPiece(t1, TOKENS)
    IN  IF tok = <<>> THEN GoOn(t1, cs)
        ELSE GoOn(From(t1, Len(tok)), Append(cs, Key(tok)))

CsvStep(t, cs) ==
    IF Len(t) <= 4 THEN Return(cs, Csv(<<>>, TRUE))
    ELSE Return(cs, Csv(split_headers(From(t, 4)), TRUE))

\* the bare numeric branch: a range when ".." follows the token, else an index
DigitStep(t, cs) ==
    LET tok == FirstPiece(t, TOKENS)
    IN  IF StartsWith(From(t, Len(tok)), <<".", ".">>)
        THEN LET start == ParseI64(tok)
                 tok2  == FirstPiece(From(t, Len(tok) + 2), TOKENS)
                 end   == ParseI64(tok2)
             IN  IF ~start.ok THEN CompilePanic
                 ELSE GoOn(From(t, Len(tok) + 2 + Len(tok2)),
                           Append(cs, Range(Some(start.v),
                                            IF end.ok THEN Some(end.v) ELSE None)))
        ELSE LET index == ParseUsize(tok)
             IN  IF ~index.ok THEN CompilePanic
                 ELSE GoOn(From(t, Len(tok)), Append(cs, Index(index.v)))

\* the bracket group, read up to the next ']' or to the end of the text
BracketStep(t, cs) ==
    LET t1     == Tail(t)
        filter == FirstPiece(t1, {"]"})
        rest   == From(t1, Len(filter))
        dd     == SplitOnce(filter, <<".", ".">>)
    IN  IF filter = <<>> THEN GoOn(rest, Append(cs, Range(None, None)))
        ELSE IF StartsWithAny(filter, DIGITS)
        THEN IF dd.some
             THEN LET start == ParseI64(dd.a)
                      end   == ParseI64(dd.b)
                  IN  IF ~start.ok THEN CompilePanic
                      ELSE GoOn(rest,
                                Append(cs, Range(Some(start.v),
                                                 IF end.ok THEN Some(end.v) ELSE None)))
             ELSE LET index == ParseUsize(filter)
                  IN  IF ~index.ok THEN CompilePanic
                      ELSE GoOn(rest, Append(cs, Index(index.v)))
        ELSE IF StartsWith(filter, <<".", ".">>)
        THEN LET end == ParseI64(From(filter, 2))
             IN  IF ~end.ok THEN CompilePanic
                 ELSE GoOn(rest, Append(cs, Range(None, Some(end.v))))
        ELSE LET fs == Split(filter, SEPARATORS)
             IN  GoOn(rest, cs \o [i \in 1..Len(fs) |-> Filter(fs[i])])

\* the fallback: a bare key token
BareKeyStep(t, cs) ==
    LET tok == FirstPiece(t, TOKENS)
    IN  GoOn(From(t, Len(tok)), Append(cs, Key(tok)))

kw_keys == <<"k", "e", "y", "s">>

kw_len == <<"l", "e", "n">>

kw_csv == <<"c", "s", "v">>

kw_put == <<"p", "u", "t">>

kw_delete == <<"d", "e", "l", "e", "t", "e">>

\* a loop whose keywords keys and len are missing: they are read as bare keys
LoopStep_no_keywords(t, cs) ==
    IF StartsWithAny(t, {"]", ",", ")", " "}) THEN GoOn(Tail(t), cs)
    ELSE IF StartsWith(t, <<".", ".">>) THEN DotDotStep(t, cs)
    ELSE IF StartsWith(t, <<".">>) THEN DotStep(t, cs)
    ELSE IF StartsWith(t, kw_csv) THEN CsvStep(t, cs)
    ELSE IF StartsWith(t, kw_put) THEN PutStep(t, cs)
    ELSE IF StartsWithAny(t, DIGITS) THEN DigitStep(t, cs)
    ELSE IF StartsWith(t, <<"[">>) THEN BracketStep(t, cs)
    ELSE IF StartsWith(t, kw_delete) THEN DeleteStep(t, cs)
    ELSE BareKeyStep(t, cs)

\* the body of the while loop, for non-empty t: the branches in source order
LoopStep(t, cs) ==
    IF StartsWithAny(t, {"]", ",", ")", " "}) THEN GoOn(Tail(t), cs)
    ELSE IF StartsWith(t, <<".", ".">>) THEN DotDotStep(t, cs)
    ELSE IF StartsWith(t, <<".">>) THEN DotStep(t, cs)
    ELSE IF StartsWith(t, kw_keys) THEN Return(cs, Keys)
    ELSE IF StartsWith(t, kw_len) THEN Return(cs, Len_)
    ELSE IF StartsWith(t, kw_csv) THEN CsvStep(t, cs)
    ELSE IF StartsWith(t, kw_put) THEN PutStep(t, cs)
    ELSE IF StartsWithAny(t, DIGITS) THEN DigitStep(t, cs)
    ELSE IF StartsWith(t, <<"[">>) THEN BracketStep(t, cs)
    ELSE IF StartsWith(t, kw_delete) THEN DeleteStep(t, cs)
    ELSE BareKeyStep(t, cs)

\* the while loop: iterate LoopStep until the text is empty or a branch returns
RECURSIVE CompileFrom(_, _)
CompileFrom(t, cs) ==
    IF t = <<>> THEN Return(cs, Pretty)
    ELSE LET r == LoopStep(t, cs)
         IN  IF r.kind = "next" THEN CompileFrom(r.s, r.commands) ELSE r

evaluate_command(t) == CompileFrom(t, <<>>)

(***************************************************************************)
(* serde_json::Value, as a pair of its kind and what it holds.  A Mapping   *)
(* is a function from key texts to values (the order of its entries is     *)
(* not modelled); numbers are integers.                                    *)
(***************************************************************************)
Null == <<"null", <<>>>>

Bool(b) == <<"bool", b>>

Num(n) == <<"num", n>>

Str(t) == <<"str", t>>

Arr(a) == <<"arr", a>>

Obj(o) == <<"obj", o>>

\* the kind of a value and what it holds
Kind(value) == value[1]

Val(value) == value[2]

EmptyMap == [x \in {} |-> Null]

EmptyObj == Obj(EmptyMap)

\* a remove that removes nothing
MapRemove_keeps(o, key) == o

\* Map::remove, the map that is left
MapRemove(o, key) == [x \in (DOMAIN o) \ {key} |-> o[x]]

\* Map::insert
MapInsert(o, key, val) ==
    [x \in (DOMAIN o) \cup {key} |-> IF x = key THEN val ELSE o[x]]

t_null == <<"n", "u", "l", "l">>

t_true == <<"t", "r", "u", "e">>

t_false == <<"f", "a", "l", "s", "e">>

\* a JSON integer literal: an optional '-', then 0 or digits without a leading 0
\* ("-0" is the float -0.0, not an integer)
IsJsonInt(t) ==
    LET d == IF StartsWithAny(t, {"-"}) THEN Tail(t) ELSE t
    IN  AllDigits(d) /\ (Len(d) = 1 \/ d[1] # "0") /\ t # <<"-", "0">>

\* parse_json: the JSON value of the text, else the text as a String.  The
\* literals of the model are null, true, false, integers and plain words.
parse_json(t) ==
    LET j == Trim(t)
    IN  IF j = t_null THEN Null
        ELSE IF j = t_true THEN Bool(TRUE)
        ELSE IF j = t_false THEN Bool(FALSE)
        ELSE IF IsJsonInt(j) THEN Num(ParseI64(j).v)
        ELSE Str(t)

equal(value, other) ==
    CASE Kind(value) = "str"  -> Val(value) = other
      [] Kind(value) = "num"  -> to_string(Val(value)) = other
      [] Kind(value) = "bool" -> (IF Val(value) THEN t_true ELSE t_false) = other
      [] Kind(value) = "null" -> other = t_null
      [] OTHER -> FALSE

(***************************************************************************)
(* usize arithmetic.  A usize is carried in two's-complement form: the     *)
(* integer u stands for u mod 2^64, so a negative u is a value of at       *)
(* least 2^63, larger than the length of any sequence.                     *)
(***************************************************************************)
\* a normalize that clamps a negative sum to 0
normalize_clamped(n, arr) ==
    IF n < 0 THEN (IF Len(arr) + n < 0 THEN 0 ELSE Len(arr) + n) ELSE n

\* normalize: the cast "as usize" wraps a negative sum
normalize(n, arr) == IF n < 0 THEN Len(arr) + n ELSE n

\* a < b as unsigned values
ULess(a, b) == IF (a < 0) = (b < 0) THEN a < b ELSE b < 0

\* end - start on usize: overflow panics with overflow checks (debug builds)
\* and wraps without them (release builds)
USub(end, start) ==
    IF ULess(end, start) /\ build = "debug"
        THEN [ok |-> FALSE, v |-> 0]
    ELSE [ok |-> TRUE, v |-> end - start]

\* Iterator::skip(n) and Iterator::take(n) over the elements of a
Skip(a, n) == IF n < 0 \/ n >= Len(a) THEN <<>> ELSE SubSeq(a, n + 1, Len(a))

Take(a, n) == IF n < 0 \/ n >= Len(a) THEN a ELSE SubSeq(a, 1, n)

(***************************************************************************)
(* apply_stream.  Its lazy result is modelled as the sequence of the       *)
(* values it yields when drained, ended by PanicItem if draining it        *)
(* panics (nothing is yielded after a panic).                              *)
(***************************************************************************)
PanicItem == <<"panic", <<>>>>

Panics(r) == r # <<>> /\ r[Len(r)] = PanicItem

\* the values a result sequence yields
Yielded(r) == IF Panics(r) THEN SubSeq(r, 1, Len(r) - 1) ELSE r

\* the closure of the filter_map of Filter on a Sequence, for one element
FilterElement(v, key, value) ==
    IF Kind(v) # "obj" THEN <<>>
    ELSE IF key \notin DOMAIN Val(v) THEN <<>>
    ELSE IF equal(Val(v)[key], value) THEN <<Val(v)[key]>>
    ELSE <<>>

RECURSIVE FilterMap(_, _, _)
FilterMap(arr, key, value) ==
    IF arr = <<>> THEN <<>>
    ELSE FilterElement(Head(arr), key, value) \o FilterMap(Tail(arr), key, value)

RECURSIVE apply_stream(_, _)
RECURSIVE FlatMap(_, _)

\* flat_map(|v| apply_stream(v, stream_command)), drained in order
FlatMap(vs, sc) ==
    IF vs = <<>> THEN <<>>
    ELSE LET r == apply_stream(Head(vs), sc)
         IN  IF Panics(r) THEN r ELSE r \o FlatMap(Tail(vs), sc)

RangeStream(arr, start, end, sc) ==
    IF start.some /\ end.some
    THEN LET st == normalize(start.v, arr)
             en == normalize(end.v, arr)
             n  == USub(en, st)
         IN  IF ~n.ok THEN <<PanicItem>>
             ELSE FlatMap(Take(Skip(arr, st), n.v), sc)
    ELSE IF start.some
    THEN FlatMap(Skip(arr, normalize(start.v, arr)), sc)
    ELSE IF end.some
    THEN FlatMap(Take(arr, normalize(end.v, arr)), sc)
    ELSE FlatMap(arr, sc)

\* a Filter that removes the key from a matching Mapping, as on a Sequence
FilterStream_removes(o, f, sc) ==
    LET kv == SplitOnce(f, <<"=">>)
    IN  IF Kind(o) = "arr"
        THEN IF ~kv.some THEN <<PanicItem>>
             ELSE FlatMap(FilterMap(Val(o), kv.a, kv.b), sc)
        ELSE IF Kind(o) = "obj"
        THEN IF ~kv.some THEN <<PanicItem>>
             ELSE IF kv.a \notin DOMAIN Val(o)
             THEN IF kv.b = t_null THEN apply_stream(o, sc) ELSE <<>>
             ELSE IF equal(Val(o)[kv.a], kv.b)
             THEN apply_stream(Obj(MapRemove(Val(o), kv.a)), sc)
             ELSE <<>>
        ELSE <<PanicItem>>

FilterStream(o, f, sc) ==
    LET kv == SplitOnce(f, <<"=">>)
    IN  IF Kind(o) = "arr"
        THEN IF ~kv.some THEN <<PanicItem>>
             ELSE FlatMap(FilterMap(Val(o), kv.a, kv.b), sc)
        ELSE IF Kind(o) = "obj"
        THEN IF ~kv.some THEN <<PanicItem>>
             ELSE IF kv.a \notin DOMAIN Val(o)
             THEN IF kv.b = t_null THEN apply_stream(o, sc) ELSE <<>>
             ELSE IF equal(Val(o)[kv.a], kv.b) THEN apply_stream(o, sc) ELSE <<>>
        ELSE <<PanicItem>>

apply_stream(o, sc) ==
    IF sc = <<>> THEN <<o>>
    ELSE LET command == Head(sc)
             rest    == Tail(sc)
         IN  CASE command.op = "Key" ->
                    IF Kind(o) # "obj" THEN <<PanicItem>>
                    ELSE apply_stream(IF command.s \in DOMAIN Val(o)
                                          THEN Val(o)[command.s] ELSE Null, rest)
               [] command.op = "Filter" -> FilterStream(o, command.f, rest)
               [] command.op = "Put" ->
                    IF Kind(o) # "obj" THEN <<PanicItem>>
                    ELSE apply_stream(
                             Obj(MapInsert(Val(o), command.k, parse_json(command.v))),
                             rest)
               [] command.op = "Delete" ->
                    IF Kind(o) # "obj" THEN <<PanicItem>>
                    ELSE apply_stream(Obj(MapRemove(Val(o), command.k)), rest)
               [] command.op = "Index" ->
                    IF Kind(o) # "arr" THEN <<PanicItem>>
                    ELSE IF command.i >= Len(Val(o)) THEN <<PanicItem>>
                    ELSE apply_stream(Val(o)[command.i + 1], rest)
               [] command.op = "Range" ->
                    IF Kind(o) # "arr" THEN <<PanicItem>>
                    ELSE RangeStream(Val(o), command.start, command.end, rest)

(***************************************************************************)
(* The renderer.  A written line is <<kind, val, of>>: its kind, what it   *)
(* holds, and the results of apply_stream it renders (none for a header).  *)
(***************************************************************************)
Line(kind, val, results) == <<kind, val, results>>

LineKind(l) == l[1]

LineVal(l) == l[2]

LineOf(l) == l[3]

\* the characters of the model's text in code order, for the order of keys
Alphabet ==
    <<" ", ")", "+", ",", "-", ".">> \o DigitSeq \o <<"=", "[", "]">> \o
    <<"a", "b", "c", "d", "e", "f", "g", "h", "i", "j", "k", "l", "m",
      "n", "o", "p", "q", "r", "s", "t", "u", "v", "w", "x", "y", "z">>

Code(c) == CHOOSE i \in 1..Len(Alphabet) : Alphabet[i] = c

RECURSIVE TextLess(_, _)
TextLess(a, b) ==
    IF b = <<>> THEN FALSE
    ELSE IF a = <<>> THEN TRUE
    ELSE IF a[1] = b[1] THEN TextLess(Tail(a), Tail(b))
    ELSE Code(a[1]) < Code(b[1])

\* Map::keys(): the keys in the order of the map (sorted, serde_json's default)
RECURSIVE SortedKeys(_)
SortedKeys(ks) ==
    IF ks = {} THEN <<>>
    ELSE LET m == CHOOSE x \in ks : \A y \in ks \ {x} : TextLess(x, y)
         IN  <<m>> \o SortedKeys(ks \ {m})

\* a turn_off_headers that leaves the flag set
turn_off_headers_never(p) == p

\* PrintCommand::turn_off_headers
turn_off_headers(p) ==
    IF p.mode = "Csv" THEN [p EXCEPT !.print_headers = FALSE] ELSE p

\* PrintCommand::add_headers: [ok, print]; an empty Sequence panics
RECURSIVE add_headers(_, _)
add_headers(p, value) ==
    IF Kind(value) = "arr"
    THEN IF Val(value) = <<>> THEN [ok |-> FALSE, print |-> p]
         ELSE add_headers(p, Val(value)[1])
    ELSE IF Kind(value) = "obj" /\ p.mode = "Csv" /\ p.pairs = <<>>
    THEN LET ks == SortedKeys(DOMAIN Val(value))
         IN  [ok |-> TRUE,
              print |-> [p EXCEPT !.pairs = [i \in 1..Len(ks) |-> <<ks[i], ks[i]>>]]]
    ELSE [ok |-> TRUE, print |-> p]

\* one cell of a CSV row: Value::get(k), Null if absent or not a Mapping;
\* a String is written raw, any other value as compact JSON text
Cell(o, sel) ==
    LET v == IF Kind(o) = "obj" /\ sel \in DOMAIN Val(o) THEN Val(o)[sel] ELSE Null
    IN  [raw |-> Kind(v) = "str", v |-> v]

CsvRow(o, p) == [i \in 1..Len(p.pairs) |-> Cell(o, p.pairs[i][1])]

CsvHeader(p) == [i \in 1..Len(p.pairs) |-> p.pairs[i][2]]

\* apply_print: [ok, lines]: the lines written, and whether it returned
\* (ok) or panicked after writing them
apply_print(o, p) ==
    CASE p.mode = "Yaml" -> [ok |-> TRUE, lines |-> <<Line("yaml", o, <<o>>)>>]
      [] p.mode = "Json" -> [ok |-> TRUE, lines |-> <<Line("json", o, <<o>>)>>]
      [] p.mode = "Pretty" ->
            [ok |-> TRUE,
             lines |-> <<Line(IF Kind(o) = "str" THEN "raw" ELSE "pretty", o, <<o>>)>>]
      [] p.mode = "Keys" ->
            IF Kind(o) # "obj" THEN [ok |-> FALSE, lines |-> <<>>]
            ELSE [ok |-> TRUE,
                  lines |-> <<Line("keys", SortedKeys(DOMAIN Val(o)), <<o>>)>>]
      [] p.mode = "Len" ->
            IF Kind(o) \notin {"arr", "obj"} THEN [ok |-> FALSE, lines |-> <<>>]
            ELSE [ok |-> TRUE,
                  lines |-> <<Line("len",
                                   IF Kind(o) = "arr" THEN Len(Val(o))
                                   ELSE Cardinality(DOMAIN Val(o)), <<o>>)>>]
      [] p.mode = "Csv" ->
            LET head == IF p.print_headers
                            THEN <<Line("header", CsvHeader(p), <<>>)>> ELSE <<>>
            IN  IF Kind(o) = "arr"
                THEN [ok |-> TRUE,
                      lines |-> head \o
                          [i \in 1..Len(Val(o)) |->
                              Line("row", CsvRow(Val(o)[i], p),
                                   IF i = 1 THEN <<o>> ELSE <<>>)]]
                ELSE IF Kind(o) = "obj"
                THEN [ok |-> TRUE,
                      lines |-> head \o <<Line("row", CsvRow(o, p), <<o>>)>>]
                ELSE [ok |-> FALSE, lines |-> head]

(***************************************************************************)
(* main: the compile step and the document loop.                           *)
(***************************************************************************)
\* main.rs 464-474: the output flags replace the default print command only
PrintFor(p, c) ==
    IF p # Pretty THEN p
    ELSE IF c.raw \/ c.json_output THEN Json
    ELSE IF c.yaml_output THEN Yaml
    ELSE Pretty

\* main.rs 509: a document's results are collected into one Sequence
Collapses(p, r) == p = Json /\ Len(r) >= 2

\* let (stream, mut print) = evaluate_command(&command), and the flags
Compile ==
    /\ pc = "start"
    /\ LET r == evaluate_command(cli.command)
       IN  IF r.kind = "panic"
           THEN pc' = "panicked" /\ UNCHANGED <<commands, print>>
           ELSE /\ pc' = "loop"
                /\ commands' = r.commands
                /\ print' = PrintFor(r.print, cli)
    /\ UNCHANGED <<cli, docs, build, s, di, it, out, obj, res>>

\* one iteration of "for obj in deserializer", up to the first result written
NextDoc ==
    /\ pc = "loop"
    /\ di < Len(docs)
    /\ di' = di + 1
    /\ LET r == apply_stream(docs[di + 1], commands)
       IN  IF r = <<>>
           THEN UNCHANGED <<pc, print, it, out>>
           ELSE IF r[1] = PanicItem
           THEN pc' = "panicked" /\ UNCHANGED <<print, it, out>>
           ELSE IF Collapses(print, r)
           THEN IF Panics(r)
                THEN pc' = "panicked" /\ UNCHANGED <<print, it, out>>
                ELSE /\ out' = out \o
                         <<[apply_print(Arr(r), print).lines[1] EXCEPT ![3] = r]>>
                     /\ UNCHANGED <<pc, print, it>>
           ELSE LET h == add_headers(print, r[1])
                    w == apply_print(r[1], h.print)
                IN  IF ~h.ok
                    THEN pc' = "panicked" /\ UNCHANGED <<print, it, out>>
                    ELSE IF ~w.ok
                    THEN /\ pc' = "panicked"
                         /\ out' = out \o w.lines
                         /\ print' = h.print
                         /\ UNCHANGED it
                    ELSE /\ out' = out \o w.lines
                         /\ print' = turn_off_headers(h.print)
                         /\ it' = Tail(r)
                         /\ pc' = IF Tail(r) = <<>> THEN "loop" ELSE "drain"
    /\ UNCHANGED <<cli, docs, build, s, commands, obj, res>>

\* a loop that recovers from a fatal condition and goes on with the next document
Drain_recovers ==
    /\ pc = "drain"
    /\ IF Head(it) = PanicItem
       THEN pc' = "loop" /\ it' = <<>> /\ UNCHANGED out
       ELSE LET w == apply_print(Head(it), print)
            IN  /\ out' = out \o w.lines
                /\ it' = Tail(it)
                /\ pc' = IF ~w.ok THEN "panicked"
                         ELSE IF Tail(it) = <<>> THEN "loop" ELSE "drain"
    /\ UNCHANGED <<cli, docs, build, s, commands, print, di, obj, res>>

\* one iteration of "for obj in it": the next result is pulled and written
Drain ==
    /\ pc = "drain"
    /\ IF Head(it) = PanicItem
       THEN pc' = "panicked" /\ UNCHANGED <<it, out>>
       ELSE LET w == apply_print(Head(it), print)
            IN  /\ out' = out \o w.lines
                /\ IF ~w.ok
                   THEN pc' = "panicked" /\ UNCHANGED it
                   ELSE /\ it' = Tail(it)
                        /\ pc' = IF Tail(it) = <<>> THEN "loop" ELSE "drain"
    /\ UNCHANGED <<cli, docs, build, s, commands, print, di, obj, res>>

\* the deserializer is exhausted: Ok(())
Finish ==
    /\ pc = "loop"
    /\ di = Len(docs)
    /\ pc' = "done"
    /\ UNCHANGED <<cli, docs, build, s, commands, print, di, it, out, obj, res>>

(***************************************************************************)
(* evaluate_command taken alone, one loop iteration at a time.             *)
(***************************************************************************)
CompileStep ==
    /\ pc = "compile"
    /\ LET r == IF s = <<>> THEN Return(commands, Pretty) ELSE LoopStep(s, commands)
       IN  /\ pc' = (CASE r.kind = "next" -> "compile"
                       [] r.kind = "return" -> "returned"
                       [] r.kind = "panic" -> "panicked")
           /\ s' = r.s
           /\ commands' = r.commands
           /\ print' = r.print
    /\ UNCHANGED <<cli, docs, build, di, it, out, obj, res>>

(***************************************************************************)
(* apply_stream taken alone: the result sequence of one document, drained. *)
(***************************************************************************)
Evaluate ==
    /\ pc = "eval"
    /\ res' = apply_stream(obj, commands)
    /\ pc' = "evaluated"
    /\ UNCHANGED <<cli, docs, build, s, commands, print, di, it, out, obj>>

(***************************************************************************)
(* The inputs of the model.                                                *)
(***************************************************************************)
kx == <<"x">>

ky == <<"y">>

ka == <<"a">>

kb == <<"b">>

q_filter_select == <<"a", "[", "x", "=", "2", "]", ".", "x">>

q_wildcard_a == <<"[", "]", ".", "a">>

q_csv_ab == <<"c", "s", "v", " ", "a", ",", "b">>

q_csv == <<"c", "s", "v">>

q_all_csv_ab == <<"[", "]", ",", "c", "s", "v", " ", "a", ",", "b">>

q_all == <<"[", "]">>

q_a == <<"a">>

q_first == <<"0">>

q_filter == <<"[", "x", "=", "2", "]">>

q_keys == <<"k", "e", "y", "s">>

q_a_len == <<"a", ",", "l", "e", "n">>

q_tail == <<"1", ".", ".">>

q_abc == <<"a", ".", "b", ".", "c">>

q_dots_abc == <<".", "a", ".", "b", ".", "c", ".">>

q_foo_keys == <<"f", "o", "o", ",", " ", "k", "e", "y", "s">>

q_dot_keys == <<".", "k", "e", "y", "s">>

q_open_filter == <<"a", "[", "x", "=", "2">>

q_open_range == <<"[", "0", ".", ".", "5">>

q_a_keys_tail == <<"a", ",", "k", "e", "y", "s", ".", "b">>

q_bad_index == <<"-", "5">>

\* {"a":[{"x":1},{"x":2},{"x":3}]}
doc_a_xs == Obj(ka :> Arr(<<Obj(kx :> Num(1)), Obj(kx :> Num(2)), Obj(kx :> Num(3))>>))

\* [{"a":1},{"a":2}]
doc_as == Arr(<<Obj(ka :> Num(1)), Obj(ka :> Num(2))>>)

\* {"a":1,"b":2} and {"a":3,"b":4}
doc_ab12 == Obj(ka :> Num(1) @@ kb :> Num(2))

doc_ab34 == Obj(ka :> Num(3) @@ kb :> Num(4))

\* [{"x":2,"y":7},5]: a Sequence with an element that is no Mapping
doc_mixed == Arr(<<Obj(kx :> Num(2) @@ ky :> Num(7)), Num(5)>>)

\* the documents of a run of main
MainDocs ==
    {doc_a_xs, doc_as, doc_ab12, doc_ab34, doc_mixed, Arr(<<>>), Num(5),
     Obj(ka :> Str(<<"s">>))}

\* the queries of a run of main
MainQueries ==
    {q_filter_select, q_wildcard_a, q_csv_ab, q_csv, q_all_csv_ab, q_all, q_a,
     q_first, q_filter, q_keys, q_a_len, q_tail, q_open_filter, q_open_range,
     q_bad_index, <<>>}

\* the output flags of a run of main
MainFlags ==
    {[json_output |-> FALSE, yaml_output |-> FALSE, raw |-> FALSE],
     [json_output |-> TRUE, yaml_output |-> FALSE, raw |-> FALSE],
     [json_output |-> FALSE, yaml_output |-> TRUE, raw |-> FALSE],
     [json_output |-> FALSE, yaml_output |-> TRUE, raw |-> TRUE]}

\* every sequence over S of length at most n
RECURSIVE SeqsUpTo(_, _)
SeqsUpTo(S, n) ==
    IF n = 0 THEN {<<>>}
    ELSE LET shorter == SeqsUpTo(S, n - 1)
         IN  shorter \cup {Append(q, x) : q \in shorter, x \in S}

Builds == {"debug", "release"}

Init ==
    /\ \E c \in MainQueries, f \in MainFlags :
           cli = [command |-> c, json_output |-> f.json_output,
                  yaml_output |-> f.yaml_output, raw |-> f.raw]
    /\ docs \in SeqsUpTo(MainDocs, MaxDocs)
    /\ build \in Builds
    /\ pc = "start"
    /\ s = cli.command
    /\ commands = <<>>
    /\ print = Pretty
    /\ di = 0
    /\ it = <<>>
    /\ out = <<>>
    /\ obj = Null
    /\ res = <<>>

Next == Compile \/ NextDoc \/ Drain \/ Finish

Spec == Init /\ [][Next]_vars

(***************************************************************************)
(* evaluate_command taken alone: the queries are every concatenation of    *)
(* at most MaxFrags fragments, every range form over -MaxInt..MaxInt, and  *)
(* the queries of the tests.                                               *)
(***************************************************************************)
Fragments ==
    {<<"a">>,
     <<"f", "o", "o">>,
     <<"k", "e", "y", "s">>,
     <<"l", "e", "n">>,
     <<".">>,
     <<",">>,
     <<" ">>,
     <<"[">>,
     <<"]">>,
     <<".", ".">>,
     <<"5">>,
     <<"-", "5">>,
     <<"x", "=", "2">>,
     <<"c", "s", "v">>,
     <<"p", "u", "t">>,
     <<"d", "e", "l", "e", "t", "e">>,
     <<")">>}

RECURSIVE Concat(_)
Concat(ts) == IF ts = <<>> THEN <<>> ELSE Head(ts) \o Concat(Tail(ts))

Ints == (0 - MaxInt)..MaxInt

dotdot == <<".", ".">>

\* "[a..b]", "[..b]", "[a..]" and the bare "a..b", "..b", "a.."
Bracketed(t) == <<"[">> \o t \o <<"]">>

RangeText(a, b) == to_string(a) \o dotdot \o to_string(b)

RangeToText(b) == dotdot \o to_string(b)

RangeFromText(a) == to_string(a) \o dotdot

RangeForms ==
    {RangeText(a, b) : a \in Ints, b \in Ints}
        \cup {Bracketed(RangeText(a, b)) : a \in Ints, b \in Ints}
        \cup {RangeToText(b) : b \in Ints}
        \cup {Bracketed(RangeToText(b)) : b \in Ints}
        \cup {RangeFromText(a) : a \in Ints}
        \cup {Bracketed(RangeFromText(a)) : a \in Ints}

TestQueries ==
    {q_abc, q_dots_abc, q_foo_keys, q_dot_keys, q_filter_select, q_open_filter,
     q_open_range, q_csv_ab, q_all_csv_ab, q_a_keys_tail}

CompileQueries ==
    {Concat(fs) : fs \in SeqsUpTo(Fragments, MaxFrags)}
        \cup RangeForms \cup TestQueries

InitCompile ==
    /\ \E c \in CompileQueries :
           cli = [command |-> c, json_output |-> FALSE,
                  yaml_output |-> FALSE, raw |-> FALSE]
    /\ docs = <<>>
    /\ build = "debug"
    /\ pc = "compile"
    /\ s = cli.command
    /\ commands = <<>>
    /\ print = Pretty
    /\ di = 0
    /\ it = <<>>
    /\ out = <<>>
    /\ obj = Null
    /\ res = <<>>

SpecCompile == InitCompile /\ [][CompileStep]_vars

(***************************************************************************)
(* apply_stream taken alone: documents and operation lists in three        *)
(* families: ranges and indexes over sequences of numbers, filters over    *)
(* sequences and mappings, and lists of Key, Index, Put and Delete.        *)
(***************************************************************************)
NumSeq(n) == [i \in 1..n |-> Num(10 + i)]

\* elements of the filtered sequences
Elements ==
    {Obj(kx :> Num(1)), Obj(kx :> Num(2)), Obj(kx :> Num(2) @@ ky :> Num(7)),
     Obj(ky :> Num(2)), Obj(kx :> Str(<<"2">>) @@ ky :> Str(<<"w">>)),
     Obj(kx :> Null), Obj(kx :> Arr(<<Num(2)>>)), Num(5), EmptyObj}

\* documents with values nested under x
NestedDocs ==
    {Obj(kx :> Arr(<<Obj(ky :> Num(1)), Num(5)>>)),
     Arr(<<Obj(kx :> Obj(ky :> Bool(TRUE))), Arr(<<Num(3)>>)>>),
     Null, Str(<<"w">>)}

lit_2 == <<"2">>

lit_w == <<"w">>

FilterTexts ==
    {kx \o <<"=">> \o lit_2, kx \o <<"=">> \o t_null, ky \o <<"=">> \o lit_2,
     ky \o <<"=">> \o t_null, ky \o <<"=">> \o lit_w, kx}

PlainOps ==
    {Key(kx), Key(ky), Index(0), Index(1), Put(kx, lit_2), Put(ky, lit_w),
     Put(kx, t_null), Delete(kx), Delete(ky)}

Opts == {None} \cup {Some(n) : n \in Ints}

RangeInputs ==
    ({Arr(NumSeq(n)) : n \in 0..MaxLen} \cup {Num(5), EmptyObj})
        \X ({<<Range(a, b)>> : a \in Opts, b \in Opts}
                \cup {<<Index(i)>> : i \in 0..MaxInt})

FilterInputs ==
    ({Arr(a) : a \in SeqsUpTo(Elements, MaxElems)} \cup Elements)
        \X {<<Filter(f)>> \o rest :
                f \in FilterTexts, rest \in {<<>>, <<Key(kx)>>, <<Key(ky)>>}}

PlainInputs ==
    (Elements \cup NestedDocs \cup {Arr(NumSeq(2))})
        \X SeqsUpTo(PlainOps, MaxOps)

\* mappings under a filter, with a Mapping and a Bool among the values
Mappings ==
    {e \in Elements : Kind(e) = "obj"}
        \cup {Obj(kx :> Obj(ky :> Num(2))), Obj(kx :> Bool(TRUE) @@ ky :> Null)}

MappingFilterInputs ==
    Mappings
        \X {<<Filter(f)>> \o rest :
                f \in FilterTexts \cup {kx \o <<"=">> \o t_true},
                rest \in {<<>>, <<Key(kx)>>, <<Index(0)>>, <<Filter(ky \o <<"=">> \o t_null)>>}}

EvalInputs == RangeInputs \cup FilterInputs \cup PlainInputs \cup MappingFilterInputs

InitEval ==
    /\ cli = [command |-> <<>>, json_output |-> FALSE,
              yaml_output |-> FALSE, raw |-> FALSE]
    /\ docs = <<>>
    /\ build \in Builds
    /\ pc = "eval"
    /\ s = <<>>
    /\ \E io \in EvalInputs : obj = io[1] /\ commands = io[2]
    /\ print = Pretty
    /\ di = 0
    /\ it = <<>>
    /\ out = <<>>
    /\ res = <<>>

SpecEval == InitEval /\ [][Evaluate]_vars

(***************************************************************************)
(* The claims.                                                             *)
(***************************************************************************)
\* the results of apply_stream that the written lines render, in order
Rendered(o) == Concat([i \in 1..Len(o) |-> LineOf(o[i])])

IsPrefix(a, b) == Len(a) <= Len(b) /\ SubSeq(b, 1, Len(a)) = a

Finished == pc \in {"done", "panicked"}

\* the result sequence of the i-th document under the compiled operations
ResultsOf(i) == apply_stream(docs[i], commands)

\* a document whose field a is a sequence of mappings, each with a scalar x
IsXsDoc(d) ==
    /\ Kind(d) = "obj"
    /\ ka \in DOMAIN Val(d)
    /\ Kind(Val(d)[ka]) = "arr"
    /\ \A i \in 1..Len(Val(Val(d)[ka])) :
           LET e == Val(Val(d)[ka])[i]
           IN  /\ Kind(e) = "obj"
               /\ kx \in DOMAIN Val(e)
               /\ Kind(Val(e)[kx]) \in {"null", "bool", "num", "str"}

\* the x of every element of d.a whose x equals the literal
RECURSIVE MatchingXs(_, _)
MatchingXs(es, literal) ==
    IF es = <<>> THEN <<>>
    ELSE (IF equal(Val(Head(es))[kx], literal) THEN <<Val(Head(es))[kx]>> ELSE <<>>)
             \o MatchingXs(Tail(es), literal)

\* C1: the query "a[x=2].x" on {"a":[{"x":1},{"x":2},{"x":3}]} ends without a
\* fatal condition with the single result 2; on documents whose field a is a
\* sequence of mappings with a scalar x, it yields the x of each element whose
\* x equals 2, and nothing else.
C1_FilterThenSelect ==
    (cli.command = q_filter_select /\ Finished
        /\ \A i \in 1..Len(docs) : IsXsDoc(docs[i]))
    => /\ pc = "done"
       /\ Rendered(out) =
              Concat([i \in 1..Len(docs) |-> MatchingXs(Val(Val(docs[i])[ka]), lit_2)])
       /\ (docs = <<doc_a_xs>> => Rendered(out) = <<Num(2)>>)

IsHeader(l) == LineKind(l) = "header"

\* C3: in Csv mode the header row is never written twice and never after a
\* data row: it is the first line written, it is written when the first
\* document that produces a result is rendered, and a run that ends normally
\* with some result has written it.  "csv a,b" on {"a":1,"b":2} and
\* {"a":3,"b":4} writes the header a,b and then exactly two data rows.
C3_CsvHeaderOnce ==
    print.mode = "Csv" =>
        /\ \A i \in 1..Len(out) : IsHeader(out[i]) <=> i = 1
        /\ (pc = "loop" /\ out = <<>>) => \A i \in 1..di : ResultsOf(i) = <<>>
        /\ (pc = "done" /\ \E i \in 1..Len(docs) : ResultsOf(i) # <<>>)
               => out # <<>>
        /\ (cli.command = q_csv_ab /\ docs = <<doc_ab12, doc_ab34>> /\ pc = "done")
               => out = <<Line("header", <<ka, kb>>, <<>>),
                          Line("row", <<[raw |-> FALSE, v |-> Num(1)],
                                        [raw |-> FALSE, v |-> Num(2)]>>, <<doc_ab12>>),
                          Line("row", <<[raw |-> FALSE, v |-> Num(3)],
                                        [raw |-> FALSE, v |-> Num(4)]>>, <<doc_ab34>>)>>

\* a Csv run over a document without result and a document that fans out
C3_Witness ==
    /\ print.mode = "Csv"
    /\ cli.command = q_all_csv_ab
    /\ docs = <<Arr(<<>>), doc_as>>
    /\ pc = "done"
    /\ Len(out) = 3

\* what Json mode writes for one document's results
JsonLines(r) ==
    IF r = <<>> THEN <<>>
    ELSE IF Len(r) = 1 THEN <<Line("json", r[1], r)>>
    ELSE <<Line("json", Arr(r), r)>>

\* C4: in Json mode, once the documents read so far have been evaluated
\* without a fatal condition, the output holds for each of them, in order:
\* nothing if it had no result, its result itself if it had exactly one, and
\* one Sequence of all its results if it had several; so N result-producing
\* documents give N rendered values.
C4_JsonCollapse ==
    (print = Json /\ pc \in {"loop", "done", "panicked"}
        /\ \A i \in 1..di : ~Panics(ResultsOf(i)))
    => /\ out = Concat([i \in 1..di |-> JsonLines(ResultsOf(i))])
       /\ Len(out) = Cardinality({i \in 1..di : ResultsOf(i) # <<>>})
       /\ (cli.command = q_wildcard_a /\ docs = <<doc_as>> /\ pc = "done")
              => (Len(out) = 1 /\ LineVal(out[1]) = Arr(<<Num(1), Num(2)>>))

\* the results a run over the documents ds renders: every document's results
\* in order, up to the first fatal condition
RECURSIVE RunResults(_)
RunResults(ds) ==
    IF ds = <<>> THEN <<>>
    ELSE LET r == apply_stream(Head(ds), commands)
         IN  IF Panics(r) THEN Yielded(r) ELSE r \o RunResults(Tail(ds))

\* the results that leave a line in the output: in Csv mode an empty Sequence
\* is a table without rows and writes nothing
Shown(r) ==
    IF print.mode = "Csv" THEN SelectSeq(r, LAMBDA v : v # Arr(<<>>)) ELSE r

\* C5: in every print mode the rendered results are always a prefix of the
\* documents' results in input order, cut at the first fatal condition;
\* whenever the next document is about to be read, every result of the
\* documents read so far is rendered and none of them was fatal; and no step
\* follows a fatal condition.
C5_State ==
    pc # "start" =>
        /\ IsPrefix(Rendered(out), Shown(RunResults(SubSeq(docs, 1, di))))
        /\ pc \in {"loop", "done"} =>
               /\ Rendered(out) = Shown(RunResults(SubSeq(docs, 1, di)))
               /\ \A i \in 1..di : ~Panics(ResultsOf(i))

C5_InOrderAbort == []C5_State /\ [][pc # "panicked"]_vars

\* a run that wrote a result of its second document and then met a fatal condition
C5_Witness ==
    /\ pc = "panicked"
    /\ print.mode = "Pretty"
    /\ di = 2
    /\ Len(docs) = 2
    /\ Len(out) >= 2
    /\ Rendered(out) # <<>>
    /\ Len(Yielded(ResultsOf(2))) >= 1

Evaluated == pc = "evaluated"

\* the claimed Filter on a Sequence: the remaining operations on every element
\* that is a Mapping with key equal to the literal, the key removed
RECURSIVE ClaimedFilter(_, _, _, _)
ClaimedFilter(es, key, literal, rest) ==
    IF es = <<>> THEN <<>>
    ELSE LET e == Head(es)
             matches == /\ Kind(e) = "obj"
                        /\ key \in DOMAIN Val(e)
                        /\ equal(Val(e)[key], literal)
         IN  (IF matches THEN apply_stream(Obj(MapRemove(Val(e), key)), rest)
              ELSE <<>>)
                 \o ClaimedFilter(Tail(es), key, literal, rest)

\* C2: Filter(key=literal) on a Sequence yields, in element order, the results
\* of the remaining operations on each element that is a Mapping holding key
\* with a value equal to literal, that Mapping with key removed; the other
\* elements yield nothing and are never fatal.
C2_FilterOnSequence ==
    (Evaluated /\ Kind(obj) = "arr" /\ commands # <<>>
        /\ Head(commands).op = "Filter"
        /\ SplitOnce(Head(commands).f, <<"=">>).some)
    => LET kv == SplitOnce(Head(commands).f, <<"=">>)
       IN  /\ res = ClaimedFilter(Val(obj), kv.a, kv.b, Tail(commands))
           /\ (Tail(commands) = <<>> => ~Panics(res))

\* the range forms of the integers a and b
RangeCase(c) ==
    \E a \in Ints :
        \/ c \in {RangeFromText(a), Bracketed(RangeFromText(a))}
        \/ c \in {RangeToText(a), Bracketed(RangeToText(a))}
        \/ \E b \in Ints : c \in {RangeText(a, b), Bracketed(RangeText(a, b))}

\* the Range a range form stands for
RangeOfForm(c) ==
    LET body == IF StartsWith(c, <<"[">>) THEN SubSeq(c, 2, Len(c) - 1) ELSE c
        dd   == SplitOnce(body, dotdot)
    IN  Range(IF dd.a = <<>> THEN None
              ELSE Some(CHOOSE a \in Ints : to_string(a) = dd.a),
              IF dd.b = <<>> THEN None
              ELSE Some(CHOOSE b \in Ints : to_string(b) = dd.b))

\* C6: for canonical integers a and b, "[a..b]" and "a..b" compile to
\* [Range(Some(a), Some(b))], "[..b]" and "..b" to [Range(None, Some(b))],
\* "[a..]" and "a.." to [Range(Some(a), None)], each with print mode Pretty
\* and no other operation, and without a compile panic.
C6_RangeForms ==
    cli.command \in RangeForms =>
        /\ pc # "panicked"
        /\ pc = "returned" =>
               (commands = <<RangeOfForm(cli.command)>> /\ print = Pretty)
        /\ \A a \in Ints, b \in Ints :
               (pc = "returned" /\ cli.command \in {RangeText(a, b), Bracketed(RangeText(a, b))})
                   => commands = <<Range(Some(a), Some(b))>>

\* the bare two-digit range "-10..11" and the two-digit "..11" are compiled
C6_Witness ==
    /\ pc = "returned"
    /\ cli.command \in {RangeText(-10, 11), RangeToText(11)}
    /\ commands \in {<<Range(Some(-10), Some(11))>>, <<Range(None, Some(11))>>}
    /\ print = Pretty

\* C7, one step of the compiler at the start of a token (the head of its
\* loop): keys or len not introduced by a dot returns at once with the
\* operations accumulated so far and mode Keys or Len, whatever follows; a
\* non-empty token introduced by one dot becomes a Key, also when it is a
\* keyword; the end of the text returns mode Pretty.
C7_Step ==
    pc = "compile" =>
        /\ StartsWith(s, kw_keys) =>
               (pc' = "returned" /\ commands' = commands /\ print' = Keys)
        /\ StartsWith(s, kw_len) =>
               (pc' = "returned" /\ commands' = commands /\ print' = Len_)
        /\ (StartsWith(s, <<".">>) /\ ~StartsWith(s, dotdot)
                /\ FirstPiece(Tail(s), TOKENS) # <<>>) =>
               /\ pc' = "compile"
               /\ commands' = Append(commands, Key(FirstPiece(Tail(s), TOKENS)))
        /\ s = <<>> =>
               (pc' = "returned" /\ commands' = commands /\ print' = Pretty)

\* C7, the compiled queries of the tests
C7_Examples ==
    pc = "returned" =>
        /\ cli.command \in {q_abc, q_dots_abc} =>
               (commands = <<Key(ka), Key(kb), Key(<<"c">>)>> /\ print = Pretty)
        /\ cli.command = q_foo_keys =>
               (commands = <<Key(<<"f", "o", "o">>)>> /\ print = Keys)
        /\ cli.command = q_dot_keys =>
               (commands = <<Key(kw_keys)>> /\ print = Pretty)

\* C7: keyword recognition in the compiler.
C7_Keywords == []C7_Examples /\ [][C7_Step]_vars

\* keys was met after an operation, with text after it ("a,keys.b")
C7_Witness ==
    /\ pc = "returned"
    /\ print = Keys
    /\ commands # <<>>
    /\ cli.command = q_a_keys_tail
    /\ commands = <<Key(ka)>>

IsPlain(c) == c.op \in {"Key", "Index", "Put", "Delete"}

\* an operation without fan-out applied as the table of operations states it:
\* [ok, v], ok when the precondition on the current value holds
StepOf(v, c) ==
    CASE c.op = "Key" ->
            [ok |-> Kind(v) = "obj",
             v  |-> IF Kind(v) = "obj" /\ c.s \in DOMAIN Val(v)
                        THEN Val(v)[c.s] ELSE Null]
      [] c.op = "Index" ->
            [ok |-> Kind(v) = "arr" /\ c.i < Len(Val(v)),
             v  |-> IF Kind(v) = "arr" /\ c.i < Len(Val(v))
                        THEN Val(v)[c.i + 1] ELSE Null]
      [] c.op = "Put" ->
            [ok |-> Kind(v) = "obj",
             v  |-> IF Kind(v) = "obj"
                        THEN Obj([x \in (DOMAIN Val(v)) \cup {c.k} |->
                                     IF x = c.k THEN parse_json(c.v) ELSE Val(v)[x]])
                        ELSE Null]
      [] c.op = "Delete" ->
            [ok |-> Kind(v) = "obj",
             v  |-> IF Kind(v) = "obj"
                        THEN Obj([x \in (DOMAIN Val(v)) \ {c.k} |-> Val(v)[x]])
                        ELSE Null]

RECURSIVE LeftToRight(_, _)
LeftToRight(v, cs) ==
    IF cs = <<>> THEN [ok |-> TRUE, v |-> v]
    ELSE LET r == StepOf(v, Head(cs))
         IN  IF r.ok THEN LeftToRight(r.v, Tail(cs)) ELSE r

\* C8: an operation list without fan-out whose preconditions hold yields
\* exactly one result, the value obtained by applying the operations left to
\* right; the empty list yields the document itself.
C8_SingleResult ==
    (Evaluated /\ \A i \in 1..Len(commands) : IsPlain(commands[i])) =>
        /\ commands = <<>> => res = <<obj>>
        /\ LeftToRight(obj, commands).ok =>
               res = <<LeftToRight(obj, commands).v>>

\* two operations without fan-out, the second a Delete of a key that is there
C8_Witness ==
    /\ Evaluated
    /\ Len(commands) = 2
    /\ commands[2].op = "Delete"
    /\ LeftToRight(obj, <<commands[1]>>).ok
    /\ Kind(LeftToRight(obj, <<commands[1]>>).v) = "obj"
    /\ commands[2].k \in DOMAIN Val(LeftToRight(obj, <<commands[1]>>).v)
    /\ Len(res) = 1
    /\ ~Panics(res)

\* the claimed bounds of Range(start, end) on a sequence of length n
ClaimedNormalize(x, n) == IF x >= 0 THEN x ELSE n + x

ClaimedStart(start, n) == IF start.some THEN ClaimedNormalize(start.v, n) ELSE 0

ClaimedEnd(end, n) == IF end.some THEN ClaimedNormalize(end.v, n) ELSE n

\* the elements of a at the positions i (from 0) with lo <= i < hi, in order
RECURSIVE Between(_, _, _)
Between(a, lo, hi) ==
    IF a = <<>> THEN <<>>
    ELSE Between(SubSeq(a, 1, Len(a) - 1), lo, hi)
             \o (IF lo <= Len(a) - 1 /\ Len(a) - 1 < hi THEN <<a[Len(a)]>> ELSE <<>>)

\* C9: Range(s, e) on a Sequence of length n yields exactly the elements at
\* the positions i with S <= i < E, for every combination of bounds, and an
\* empty result without a fatal condition when S >= E.
C9_RangeSelects ==
    (Evaluated /\ Kind(obj) = "arr" /\ Len(commands) = 1
        /\ commands[1].op = "Range")
    => res = Between(Val(obj),
                     ClaimedStart(commands[1].start, Len(Val(obj))),
                     ClaimedEnd(commands[1].end, Len(Val(obj))))

\* a bound that lies beyond a sequence of length n
Beyond(b, n) == b.some /\ (b.v > n \/ b.v < 0 - n)

Unclosed(t) ==
    \E i \in 1..Len(t) : t[i] = "[" /\ \A j \in (i + 1)..Len(t) : t[j] # "]"

\* C11: a query that opens a bracket group and never closes it is a fatal
\* compile error: once main has compiled it the run has stopped, without an
\* operation list, without a document evaluated and without output.
C11_UnclosedBracketFatal ==
    (Unclosed(cli.command) /\ pc # "start") =>
        /\ pc = "panicked"
        /\ commands = <<>>
        /\ di = 0
        /\ out = <<>>

\* C12: Filter(key=literal) on a Mapping.  If key is present with a value
\* equal to literal, or absent with literal the text null, the result is that
\* of the remaining operations on the mapping itself, key kept (so the filter
\* alone yields the mapping, and followed by Key(key) the value under key);
\* in every other case, and always when the value under key is a Sequence or
\* a Mapping, the result is empty and nothing is fatal.
C12_FilterOnMapping ==
    (Evaluated /\ Kind(obj) = "obj" /\ commands # <<>>
        /\ Head(commands).op = "Filter"
        /\ SplitOnce(Head(commands).f, <<"=">>).some)
    => LET kv      == SplitOnce(Head(commands).f, <<"=">>)
           rest    == Tail(commands)
           present == kv.a \in DOMAIN Val(obj)
           passes  == IF present THEN equal(Val(obj)[kv.a], kv.b)
                      ELSE kv.b = t_null
       IN  /\ passes => res = apply_stream(obj, rest)
           /\ (passes /\ rest = <<>>) => res = <<obj>>
           /\ (passes /\ present /\ rest = <<Key(kv.a)>>) => res = <<Val(obj)[kv.a]>>
           /\ ~passes => res = <<>>
           /\ (present /\ Kind(Val(obj)[kv.a]) \in {"arr", "obj"}) => res = <<>>
           /\ (present /\ Kind(Val(obj)[kv.a]) = "null") =>
                  (res # <<>> <=> kv.b = t_null)

\* the filter x=2 let {"x":2,"y":7} through and Key(x) then found x in it
C12_Witness ==
    /\ Evaluated
    /\ obj = Obj(kx :> Num(2) @@ ky :> Num(7))
    /\ commands = <<Filter(kx \o <<"=">> \o lit_2), Key(kx)>>
    /\ res = <<Num(2)>>

====
